---- MODULE Spec2Model ----
(***************************************************************************)
(* Model of the multi-flow character device driver                         *)
(* (src/multi-flow-service.c) and of the calls the user programs           *)
(* (src/user/user1.c, src/user/user2.c) make on one device file.           *)
(*                                                                         *)
(* One minor is modelled: the state of objects[minor], numBytes[minor],    *)
(* numReaders[minor], read_queues[minor] and the system work queue.  Each  *)
(* user thread is a small state machine whose position (pc) is a place in  *)
(* dev_write / dev_read at which other threads can interleave: the entry,  *)
(* the spin_trylock, the section run with the spinlock held, the sleep in  *)
(* wait_event_timeout and the exit.                                        *)
(*                                                                         *)
(* Modelling conventions                                                   *)
(*  - user buffers are valid: copy_from_user / copy_to_user return 0;      *)
(*  - numBytes is the 32 bit word the driver updates with atomic_add /     *)
(*    atomic_sub; the model keeps its two's complement (int) reading, so   *)
(*    a negative value stands for the unsigned value 2^32 + numBytes;      *)
(*  - the page got from __get_free_page is not zeroed: its cells hold      *)
(*    Uninit until written, and a cell that is read while Uninit takes an  *)
(*    arbitrary byte at that moment (and keeps it);                        *)
(*  - stream_content has one cell more than the page, index                *)
(*    OBJECT_MAX_SIZE: the byte that follows the page in memory;           *)
(*  - time is counted in jiffies; it only advances while some call is      *)
(*    running against a deadline, up to MaxJiffies.                        *)
(***************************************************************************)
EXTENDS Integers, Sequences, FiniteSets, TLC

\* ------------------------------------------------------------------ bounds
\* size of the page that backs the device file (4096 in the driver)
OBJECT_MAX_SIZE == 3
\* longest payload of a write and largest count of a read
MaxLen == 2
\* largest byte value; 0 is the string terminator
MaxByte == 1
\* user threads with an open session on the device file
NumThreads == 2
\* CPUs, each with its own pool of the system work queue
NumCPUs == 2
\* system calls issued in one run
MaxCalls == 3
\* last jiffy the model's clock reaches
MaxJiffies == 3
\* largest argument of an ioctl
MaxIoctl == 2

\* ------------------------------------------------------- program constants
\* the timer frequency the kernel is built with
HZ == 1000
MSEC_PER_SEC == 1000
\* objects[i].timeout = 200 in init_module
DEFAULT_TIMEOUT == 200
\* content of a page cell that was never written
Uninit == -1

Threads == 1..NumThreads
CPUs == 1..NumCPUs
Byte == 0..MaxByte
Cells == 0..OBJECT_MAX_SIZE
Payloads == UNION {[1..n -> Byte] : n \in 1..MaxLen}
IoctlCommands == {"IOWR_PRIORITYSTATE", "IOWR_BLOCKINGSTATE", "IOWR_TIMEOUT"}
IoctlValues == (0 - 1)..MaxIoctl

Min(a, b) == IF a < b THEN a ELSE b
Max(a, b) == IF a > b THEN a ELSE b

VARIABLES
    operation_synchronizer, \* the spinlock of the object: TRUE when locked
    off_read,               \* first byte readable
    off_write,              \* first byte writable
    stream_content,         \* the page, plus the byte after it
    priority,               \* TRUE high priority, FALSE low priority
    blocking,               \* TRUE blocking operations
    timeout,                \* timeout of blocking operations, in ms
    numBytes,               \* module parameter numBytes[minor]
    numReaders,             \* module parameter numReaders[minor]
    workq,                  \* per CPU, the packed_work items scheduled
    worker,                 \* per CPU, where its worker is in delayed_work
    jiffies,                \* get_jiffies_64()
    th,                     \* per thread, its place in a call and its locals
    last,                   \* per thread, what its last call returned
    calls,                  \* system calls still to be issued
    wlog,                   \* bytes accepted by write calls, in order
    rlog,                   \* bytes handed to read calls, in order
    enableDriver,           \* module parameter enableDriver[minor]
    session                 \* per thread, whether it has the file open

dev == <<operation_synchronizer, off_read, off_write, stream_content,
         numBytes, numReaders>>
conf == <<priority, blocking, timeout>>
sess == <<enableDriver, session>>
vars == <<operation_synchronizer, off_read, off_write, stream_content,
          priority, blocking, timeout, numBytes, numReaders, workq, worker,
          jiffies, th, last, calls, wlog, rlog, enableDriver, session>>

\* ------------------------------------------------------------ pure helpers
\* msecs_to_jiffies for a positive argument, HZ dividing MSEC_PER_SEC
msecs_to_jiffies(m) ==
    (m + (MSEC_PER_SEC \div HZ) - 1) \div (MSEC_PER_SEC \div HZ)

\* the locals of a thread that is in no call
NoEntry ==
    [call |-> 0, len |-> 0, jiffies |-> 0, timeout |-> 0, off_read |-> 0,
     off_write |-> 0, unread |-> 0, quiet |-> TRUE, enableDriver |-> TRUE]

IdleLocals ==
    [pc |-> "idle", len |-> 0, len_2nd |-> 0, result |-> 0, buff |-> <<>>,
     jiffies_timer |-> 0, blocking |-> FALSE, woken |-> FALSE,
     flow |-> FALSE, entry |-> NoEntry]

\* what a thread that made no call yet remembers
NoCall ==
    [op |-> "none", ret |-> 0, data |-> <<>>, flow |-> FALSE,
     blocking |-> FALSE, entry |-> NoEntry]

\* memcpy of the bytes s into mem, from index at on
CopyIn(mem, at, s) ==
    [i \in DOMAIN mem |->
        IF i >= at /\ i < at + Len(s) THEN s[i - at + 1] ELSE mem[i]]

\* the n cells of mem from index from on, as a sequence
CopyOut(mem, from, n) == [i \in 1..n |-> mem[from + i - 1]]

\* the user buffer b after s was copied to &b[at]
PutAt(b, at, s) ==
    [i \in 1..Max(Len(b), at + Len(s)) |->
        IF i > at /\ i <= at + Len(s) THEN s[i - at]
        ELSE IF i <= Len(b) THEN b[i] ELSE Uninit]

\* strlen of a buffer whose byte after the last one is the terminator
strlen(s) ==
    IF \E i \in 1..Len(s) : s[i] = 0
    THEN (CHOOSE i \in 1..Len(s) :
              s[i] = 0 /\ \A j \in 1..(i - 1) : s[j] # 0) - 1
    ELSE Len(s)

\* strcpy(&mem[at], s): the bytes before the first terminator, then it
strcpy(mem, at, s) == CopyIn(mem, at, SubSeq(s, 1, strlen(s)) \o <<0>>)

\* atomic_inc / atomic_dec of numReaders[minor]
atomic_inc(v) == v + 1

\* an exit path that leaves numReaders[minor] as it is
atomic_dec_skipped(v) == v

atomic_dec(v) == v - 1

\* a write path that makes no check for room
FileIsFullNever(nb, len) == FALSE

\* numBytes[minor] + len >= OBJECT_MAX_SIZE, numBytes read as unsigned
FileIsFull(nb, len) ==
    IF nb < 0 THEN TRUE ELSE nb + len >= OBJECT_MAX_SIZE

\* diff < 0 for the u64 diff of the high priority blocking write
TimeoutElapsedU64(timer, now) == FALSE

\* diff < 0 for the long long diff of the low priority write and the read
TimeoutElapsed(timer, now) == timer - now < 0

\* a timer that fires one jiffy before the time asked for
WaitTimedOutEarly(timer, now) == now + 1 >= timer

\* wait_event_timeout ran out of time: the timer set diff jiffies ahead fired
WaitTimedOut(timer, now) == now >= timer

\* the condition readers sleep on in wait_event_timeout
WaitCondition(ow, or, nb) == ow - or > 0 /\ nb # 0

\* wake_up(&read_queues[minor]): every sleeper evaluates its condition again
wake_up(thr) ==
    [u \in Threads |->
        IF thr[u].pc = "rb_wait" THEN [thr[u] EXCEPT !.woken = TRUE]
        ELSE thr[u]]

\* the copy of dev_write's high priority branch: what it leaves in the page,
\* in off_write and in result
write_copy(mem, ow, data) ==
    LET n == Len(data)
        split == (OBJECT_MAX_SIZE - ow) < n
        len_2nd == IF split THEN n + ow - OBJECT_MAX_SIZE ELSE 0
        len == IF split THEN OBJECT_MAX_SIZE - ow ELSE n
        m1 == CopyIn(mem, ow, SubSeq(data, 1, len))
        second == len_2nd > 0
    IN  [mem |-> IF second THEN CopyIn(m1, 0, SubSeq(data, len + 1, n))
                 ELSE m1,
         off |-> IF second THEN len_2nd ELSE ow + len,
         result |-> IF second THEN len + len_2nd ELSE len]

\* the copy of delayed_work: what it leaves in the page and in off_write
work_copy(mem, ow, buffer) ==
    LET len == Len(buffer)
        len1 == OBJECT_MAX_SIZE - ow
    IN  IF (OBJECT_MAX_SIZE - ow) >= len
        THEN [mem |-> strcpy(mem, ow, buffer), off |-> ow + len]
        ELSE [mem |-> strcpy(strcpy(mem, ow, SubSeq(buffer, 1, len1)),
                             0, SubSeq(buffer, len1 + 1, len)),
              off |-> len + ow - OBJECT_MAX_SIZE]

\* the copy of dev_read, from the locals as they are when the lock is taken
read_copy(mem, or, l) ==
    LET split == (OBJECT_MAX_SIZE - or) < l.len
        len_2nd == IF split THEN l.len + or - OBJECT_MAX_SIZE ELSE l.len_2nd
        len == IF split THEN OBJECT_MAX_SIZE - or ELSE l.len
        b1 == PutAt(l.buff, 0, CopyOut(mem, or, len))
        r1 == l.result + len
        second == len_2nd > 0 /\ r1 = len
    IN  [len |-> len, len_2nd |-> len_2nd,
         off |-> IF second THEN len_2nd ELSE or + len,
         result |-> IF second THEN r1 + len_2nd ELSE r1,
         buff |-> IF second THEN PutAt(b1, r1, CopyOut(mem, 0, len_2nd))
                  ELSE b1]

\* the cells the copy of dev_read reads
read_cells(or, l) ==
    LET split == (OBJECT_MAX_SIZE - or) < l.len
        len_2nd == IF split THEN l.len + or - OBJECT_MAX_SIZE ELSE l.len_2nd
        len == IF split THEN OBJECT_MAX_SIZE - or ELSE l.len
        second == len_2nd > 0 /\ l.result + len = len
    IN  {i \in Cells : i >= or /\ i < or + len}
        \cup (IF second THEN {i \in Cells : i < len_2nd} ELSE {})

\* the page once the cells of S that were never written took their value
Settle(mem, S, f) ==
    [i \in DOMAIN mem |->
        IF i \in S /\ mem[i] = Uninit THEN f[i] ELSE mem[i]]

\* the log with the bytes of s added, marked with the flow in use and the
\* call they belong to
Logged(log, s, hi, call) ==
    log \o [i \in 1..Len(s) |-> [b |-> s[i], hi |-> hi, call |-> call]]

\* a call returns ret to thread t, which keeps it with the data of the call
\* (the payload of a write, the bytes a read got, the value of an ioctl)
Return(thr, t, op, ret, data) ==
    /\ th' = [thr EXCEPT ![t] = IdleLocals]
    /\ last' = [last EXCEPT ![t] =
                [op |-> op, ret |-> ret, data |-> data,
                 flow |-> thr[t].flow, blocking |-> thr[t].blocking,
                 entry |-> thr[t].entry]]

\* ------------------------------------------------------------------ state
\* what thread t finds when it enters a call for len bytes: the number of
\* the call, the clock, the timeout, the offsets, the bytes accepted and not
\* yet handed to a read, whether nothing else is going on, and whether the
\* device file is enabled
Entry(t, len) ==
    [call |-> calls, len |-> len, jiffies |-> jiffies, timeout |-> timeout,
     off_read |-> off_read, off_write |-> off_write,
     unread |-> Len(wlog) - Len(rlog),
     quiet |-> /\ \A u \in Threads \ {t} : th[u].pc = "idle"
               /\ \A c \in CPUs : workq[c] = <<>> /\ worker[c] = "idle",
     enableDriver |-> enableDriver]

\* init_module: the state of a minor once the module is loaded
Init ==
    /\ operation_synchronizer = FALSE
    /\ off_read = 0
    /\ off_write = 0
    /\ stream_content = [i \in Cells |-> Uninit]
    /\ priority = TRUE
    /\ blocking = TRUE
    /\ timeout = DEFAULT_TIMEOUT
    /\ numBytes = 0
    /\ numReaders = 0
    /\ workq = [c \in CPUs |-> <<>>]
    /\ worker = [c \in CPUs |-> "idle"]
    /\ jiffies = 0
    /\ th = [t \in Threads |-> IdleLocals]
    /\ last = [t \in Threads |-> NoCall]
    /\ calls = MaxCalls
    /\ wlog = <<>>
    /\ rlog = <<>>
    /\ enableDriver = TRUE
    /\ session = [t \in Threads |-> TRUE]

\* -------------------------------------------------------------- dev_write
\* a thread makes a call on the device file through a session it has open
\* and, here, only while the device file is enabled
SessionWhileEnabled(t) == session[t] /\ enableDriver

\* a thread makes a call on the device file through a session it has open
Session(t) == session[t]

\* what dev_write returns when kzalloc gives no memory for the task
ENOTASK == 0 - 1

\* dev_write up to its first spin_trylock: the configuration is read, the
\* deadline is set and, in the low priority branch, the task is allocated
\* (kzalloc with GFP_ATOMIC may fail) and the payload copied into it
dev_write_enter(t) ==
    /\ th[t].pc = "idle"
    /\ Session(t)
    /\ calls > 0
    /\ \E data \in Payloads, the_task \in {"allocated", "NULL"} :
        LET l == [IdleLocals EXCEPT
                    !.pc = IF priority
                           THEN (IF blocking THEN "hb_try" ELSE "hn_try")
                           ELSE (IF blocking THEN "lb_try" ELSE "ln_try"),
                    !.len = Len(data),
                    !.buff = data,
                    !.flow = priority,
                    !.blocking = blocking,
                    !.entry = Entry(t, Len(data)),
                    !.jiffies_timer =
                        IF blocking
                        THEN jiffies + msecs_to_jiffies(timeout) ELSE 0]
        IN  IF ~priority /\ the_task = "NULL"
            THEN Return([th EXCEPT ![t] = l], t, "write", ENOTASK, data)
            ELSE /\ th' = [th EXCEPT ![t] = l]
                 /\ UNCHANGED last
    /\ calls' = calls - 1
    /\ UNCHANGED <<sess, dev, conf, workq, worker, jiffies, wlog, rlog>>

\* high priority: one turn of the blocking loop, or the single spin_trylock
\* of the non blocking branch, whose failure falls through to exit_write
dev_write_high_trylock(t) ==
    /\ th[t].pc \in {"hb_try", "hn_try"}
    /\ IF th[t].pc = "hb_try"
       THEN IF TimeoutElapsedU64(th[t].jiffies_timer, jiffies)
            THEN /\ operation_synchronizer' = FALSE
                 /\ Return(wake_up(th), t, "write", th[t].result, th[t].buff)
            ELSE /\ ~operation_synchronizer
                 /\ operation_synchronizer' = TRUE
                 /\ th' = [th EXCEPT ![t].pc = "hb_cs"]
                 /\ UNCHANGED last
       ELSE IF ~operation_synchronizer
            THEN /\ operation_synchronizer' = TRUE
                 /\ th' = [th EXCEPT ![t].pc = "hn_cs"]
                 /\ UNCHANGED last
            ELSE /\ operation_synchronizer' = FALSE
                 /\ Return(wake_up(th), t, "write", th[t].result, th[t].buff)
    /\ UNCHANGED <<sess, off_read, off_write, stream_content, numBytes, numReaders,
                   conf, workq, worker, jiffies, calls, wlog, rlog>>

\* high priority, with the lock: the check for room, the copy, exit_write
dev_write_high_copy(t) ==
    /\ th[t].pc \in {"hb_cs", "hn_cs"}
    /\ LET l == th[t]
           w == write_copy(stream_content, off_write, l.buff)
       IN  IF FileIsFull(numBytes, l.len)
           THEN /\ Return(IF l.pc = "hb_cs" THEN wake_up(th) ELSE th,
                          t, "write", 0, l.buff)
                /\ UNCHANGED <<off_write, stream_content, numBytes, wlog>>
           ELSE /\ stream_content' = w.mem
                /\ off_write' = w.off
                /\ numBytes' = IF w.result > 0 THEN numBytes + w.result
                               ELSE numBytes
                /\ wlog' = Logged(wlog, SubSeq(l.buff, 1, w.result), TRUE,
                                l.entry.call)
                /\ Return(wake_up(th), t, "write", w.result, l.buff)
    /\ operation_synchronizer' = FALSE
    /\ UNCHANGED <<sess, off_read, numReaders, conf, workq, worker, jiffies, calls,
                   rlog>>

\* low priority: one turn of the blocking loop, or the single spin_trylock
\* of the non blocking branch, whose failure goes to dealloc_task
dev_write_low_trylock(t) ==
    /\ th[t].pc \in {"lb_try", "ln_try"}
    /\ IF th[t].pc = "lb_try"
          /\ TimeoutElapsed(th[t].jiffies_timer, jiffies)
       THEN /\ Return(th, t, "write", th[t].result, th[t].buff)
            /\ UNCHANGED operation_synchronizer
       ELSE IF ~operation_synchronizer
            THEN /\ operation_synchronizer' = TRUE
                 /\ th' = [th EXCEPT ![t].pc = "l_cs"]
                 /\ UNCHANGED last
            ELSE /\ th[t].pc = "ln_try"
                 /\ Return(th, t, "write", th[t].result, th[t].buff)
                 /\ UNCHANGED operation_synchronizer
    /\ UNCHANGED <<sess, off_read, off_write, stream_content, numBytes, numReaders,
                   conf, workq, worker, jiffies, calls, wlog, rlog>>

\* low priority, with the lock: the check for room and the reservation
dev_write_low_reserve(t) ==
    /\ th[t].pc = "l_cs"
    /\ LET l == th[t]
       IN  IF FileIsFull(numBytes, l.len)
           THEN /\ Return(th, t, "write", l.result, l.buff)
                /\ UNCHANGED <<numBytes, wlog>>
           ELSE /\ numBytes' = numBytes + l.len
                /\ th' = [th EXCEPT ![t].pc = "l_sched", ![t].result = l.len]
                /\ wlog' = Logged(wlog, l.buff, FALSE, l.entry.call)
                /\ UNCHANGED last
    /\ operation_synchronizer' = FALSE
    /\ UNCHANGED <<sess, off_read, off_write, stream_content, numReaders, conf,
                   workq, worker, jiffies, calls, rlog>>

\* low priority: schedule_work on the pool of the CPU the thread runs on,
\* and the return of the reserved length
dev_write_low_schedule(t) ==
    /\ th[t].pc = "l_sched"
    /\ \E c \in CPUs : workq' = [workq EXCEPT ![c] = Append(@, th[t].buff)]
    /\ Return(th, t, "write", th[t].result, th[t].buff)
    /\ UNCHANGED <<sess, dev, conf, worker, jiffies, calls, wlog, rlog>>

\* ----------------------------------------------------------- delayed_work
\* the worker of CPU c takes the first item of its pool and gets the lock
delayed_work_lock(c) ==
    /\ worker[c] = "idle"
    /\ workq[c] # <<>>
    /\ ~operation_synchronizer
    /\ operation_synchronizer' = TRUE
    /\ worker' = [worker EXCEPT ![c] = "locked"]
    /\ UNCHANGED <<sess, off_read, off_write, stream_content, numBytes, numReaders,
                   conf, workq, jiffies, th, last, calls, wlog, rlog>>

\* with the lock: the strcpy of the item into the page, the unlock, kfree
delayed_work_copy(c) ==
    /\ worker[c] = "locked"
    /\ LET w == work_copy(stream_content, off_write, Head(workq[c]))
       IN  /\ stream_content' = w.mem
           /\ off_write' = w.off
    /\ operation_synchronizer' = FALSE
    /\ workq' = [workq EXCEPT ![c] = Tail(@)]
    /\ worker' = [worker EXCEPT ![c] = "idle"]
    /\ UNCHANGED <<sess, off_read, numBytes, numReaders, conf, jiffies, th, last,
                   calls, wlog, rlog>>

\* --------------------------------------------------------------- dev_read
\* dev_read up to its loop: numReaders is incremented, the deadline is set
dev_read_enter(t) ==
    /\ th[t].pc = "idle"
    /\ Session(t)
    /\ calls > 0
    /\ \E n \in 1..MaxLen :
        th' = [th EXCEPT ![t] =
                [IdleLocals EXCEPT
                    !.pc = IF blocking THEN "rb_loop" ELSE "rn_try",
                    !.len = n,
                    !.buff = [i \in 1..n |-> Uninit],
                    !.flow = priority,
                    !.blocking = blocking,
                    !.entry = Entry(t, n),
                    !.jiffies_timer =
                        IF blocking
                        THEN jiffies + msecs_to_jiffies(timeout) ELSE 0]]
    /\ numReaders' = atomic_inc(numReaders)
    /\ calls' = calls - 1
    /\ UNCHANGED <<sess, operation_synchronizer, off_read, off_write,
                   stream_content, numBytes, conf, workq, worker, jiffies,
                   last, wlog, rlog>>

\* blocking read, head of the loop: the timeout check and the test that
\* sends the reader to wait_event_timeout
dev_read_loop(t) ==
    /\ th[t].pc = "rb_loop"
    /\ th' = [th EXCEPT ![t] =
                IF TimeoutElapsed(th[t].jiffies_timer, jiffies)
                THEN [@ EXCEPT !.pc = "r_exit"]
                ELSE IF off_write - off_read <= 0
                THEN [@ EXCEPT !.pc = "rb_wait", !.woken = TRUE]
                ELSE [@ EXCEPT !.pc = "rb_try"]]
    /\ UNCHANGED <<sess, dev, conf, workq, worker, jiffies, last, calls, wlog, rlog>>

\* wait_event_timeout: the condition is evaluated on entry, after a wake_up
\* and when the time is out; the reader sleeps in between
dev_read_wait(t) ==
    /\ th[t].pc = "rb_wait"
    /\ th[t].woken \/ WaitTimedOut(th[t].jiffies_timer, jiffies)
    /\ th' = [th EXCEPT ![t] =
                IF WaitCondition(off_write, off_read, numBytes)
                THEN [@ EXCEPT !.pc = "rb_try", !.woken = FALSE]
                ELSE IF WaitTimedOut(th[t].jiffies_timer, jiffies)
                THEN [@ EXCEPT !.pc = "r_exit", !.woken = FALSE]
                ELSE [@ EXCEPT !.woken = FALSE]]
    /\ UNCHANGED <<sess, dev, conf, workq, worker, jiffies, last, calls, wlog, rlog>>

\* the spin_trylock of the read, in the loop or in the non blocking branch
dev_read_trylock(t) ==
    /\ th[t].pc \in {"rb_try", "rn_try"}
    /\ IF ~operation_synchronizer
       THEN /\ operation_synchronizer' = TRUE
            /\ th' = [th EXCEPT
                        ![t].pc = IF th[t].pc = "rb_try" THEN "rb_cs"
                                  ELSE "rn_cs"]
       ELSE /\ UNCHANGED operation_synchronizer
            /\ th' = [th EXCEPT
                        ![t].pc = IF th[t].pc = "rb_try" THEN "rb_loop"
                                  ELSE "r_exit"]
    /\ UNCHANGED <<sess, off_read, off_write, stream_content, numBytes, numReaders,
                   conf, workq, worker, jiffies, last, calls, wlog, rlog>>

\* with the lock: the test for an empty file, the copy to the user, unlock
dev_read_copy(t) ==
    /\ th[t].pc \in {"rb_cs", "rn_cs"}
    /\ LET l == th[t]
           loop == l.pc = "rb_cs"
           S == {i \in read_cells(off_read, l) : stream_content[i] = Uninit}
       IN  IF off_write - off_read = 0
           THEN /\ th' = [th EXCEPT
                            ![t].pc = IF loop THEN "rb_loop" ELSE "r_exit"]
                /\ UNCHANGED <<off_read, stream_content>>
           ELSE \E f \in [S -> Byte] :
                  LET mem == Settle(stream_content, S, f)
                      r == read_copy(mem, off_read, l)
                  IN  /\ stream_content' = mem
                      /\ off_read' = r.off
                      /\ th' = [th EXCEPT ![t] =
                                  [@ EXCEPT
                                     !.pc = IF loop /\ r.result # r.len
                                            THEN "rb_loop" ELSE "r_exit",
                                     !.len = r.len,
                                     !.len_2nd = r.len_2nd,
                                     !.result = r.result,
                                     !.buff = r.buff,
                                     !.flow = priority]]
    /\ operation_synchronizer' = FALSE
    /\ UNCHANGED <<sess, off_write, numBytes, numReaders, conf, workq, worker,
                   jiffies, last, calls, wlog, rlog>>

\* the end of dev_read: numReaders and numBytes are updated, result returned
dev_read_exit(t) ==
    /\ th[t].pc = "r_exit"
    /\ LET l == th[t]
           data == SubSeq(l.buff, 1, Min(l.result, Len(l.buff)))
       IN  /\ numReaders' = atomic_dec(numReaders)
           /\ numBytes' = IF l.result > 0 THEN numBytes - l.result
                          ELSE numBytes
           /\ rlog' = Logged(rlog, data, l.flow, l.entry.call)
           /\ Return(th, t, "read", l.result, data)
    /\ UNCHANGED <<sess, operation_synchronizer, off_read, off_write,
                   stream_content, conf, workq, worker, jiffies, calls, wlog>>

\* -------------------------------------------------------------- dev_ioctl
\* the values dev_ioctl takes for a command: 0 or 1 for the priority and
\* the blocking state, value > 0 for the timeout
ValidParamLoose(command, value) ==
    IF command = "IOWR_TIMEOUT" THEN value >= 0 ELSE value \in {0, 1, 2}

ValidParam(command, value) ==
    IF command = "IOWR_TIMEOUT" THEN value > 0 ELSE value \in {0, 1}

\* a switch whose cases store the value in the field of the next case
ioctl_store_shifted(command, value) ==
    [priority |-> IF command = "IOWR_TIMEOUT" /\ ValidParam(command, value)
                  THEN value = 1 ELSE priority,
     blocking |-> IF command = "IOWR_PRIORITYSTATE"
                     /\ ValidParam(command, value)
                  THEN value = 1 ELSE blocking,
     timeout |-> IF command = "IOWR_BLOCKINGSTATE"
                    /\ ValidParam(command, value)
                 THEN value ELSE timeout]

\* the configuration the switch of dev_ioctl leaves
ioctl_store(command, value) ==
    [priority |-> IF command = "IOWR_PRIORITYSTATE"
                     /\ ValidParam(command, value)
                  THEN value = 1 ELSE priority,
     blocking |-> IF command = "IOWR_BLOCKINGSTATE"
                     /\ ValidParam(command, value)
                  THEN value = 1 ELSE blocking,
     timeout |-> IF command = "IOWR_TIMEOUT" /\ ValidParam(command, value)
                 THEN value ELSE timeout]

dev_ioctl(t) ==
    /\ th[t].pc = "idle"
    /\ Session(t)
    /\ calls > 0
    /\ \E command \in IoctlCommands, value \in IoctlValues :
        LET c == ioctl_store(command, value)
        IN  /\ priority' = c.priority
            /\ blocking' = c.blocking
            /\ timeout' = c.timeout
            /\ Return([th EXCEPT ![t].entry = Entry(t, 0)], t, command,
                      IF ValidParam(command, value) THEN 0 ELSE 0 - 1,
                      <<value>>)
    /\ calls' = calls - 1
    /\ UNCHANGED <<sess, dev, workq, worker, jiffies, wlog, rlog>>

\* ---------------------------------------------------- dev_open, release
\* the number of device files the driver manages
MINORS == 128

\* the minors an open is tried on: the one modelled and the first beyond
\* the range
Minors == {0, MINORS}

\* what dev_open returns for a minor whose enableDriver is enabled
dev_open_result(minor, enabled) ==
    IF minor >= MINORS THEN 0 - 1
    ELSE IF ~enabled THEN 0 - 1
    ELSE 0

dev_open(t) ==
    /\ th[t].pc = "idle"
    /\ ~session[t]
    /\ calls > 0
    /\ \E minor \in Minors :
        LET ret == dev_open_result(minor, enableDriver)
        IN  /\ session' = [session EXCEPT ![t] = ret = 0]
            /\ Return([th EXCEPT ![t].entry = Entry(t, 0)], t, "open", ret,
                      <<minor>>)
    /\ calls' = calls - 1
    /\ UNCHANGED <<dev, conf, workq, worker, jiffies, wlog, rlog,
                   enableDriver>>

dev_release(t) ==
    /\ th[t].pc = "idle"
    /\ session[t]
    /\ calls > 0
    /\ session' = [session EXCEPT ![t] = FALSE]
    /\ Return([th EXCEPT ![t].entry = Entry(t, 0)], t, "release", 0, <<>>)
    /\ calls' = calls - 1
    /\ UNCHANGED <<dev, conf, workq, worker, jiffies, wlog, rlog,
                   enableDriver>>

\* the administrator writes the module parameter enableDriver[minor]
set_enableDriver ==
    /\ enableDriver' = ~enableDriver
    /\ UNCHANGED <<dev, conf, workq, worker, jiffies, th, last, calls, wlog,
                   rlog, session>>

\* ------------------------------------------------------------------- time
\* the places of a call that runs against its deadline
Timed == {"lb_try", "rb_loop", "rb_wait", "rb_try", "rb_cs"}

\* a timer interrupt: one more jiffy
Tick ==
    /\ jiffies < MaxJiffies
    /\ \E t \in Threads :
        th[t].pc \in Timed /\ jiffies <= th[t].jiffies_timer
    /\ jiffies' = jiffies + 1
    /\ UNCHANGED <<sess, dev, conf, workq, worker, th, last, calls, wlog, rlog>>

\* ---------------------------------------------------------- specification
\* the device file once calls have written and read back k bytes in all and
\* set the configuration: nothing is left to read, no call is running
InitQuiet ==
    /\ operation_synchronizer = FALSE
    /\ off_read \in 0..OBJECT_MAX_SIZE
    /\ off_write = off_read
    /\ stream_content = [i \in Cells |-> Uninit]
    /\ priority \in BOOLEAN
    /\ blocking \in BOOLEAN
    /\ timeout \in 1..MaxIoctl
    /\ numBytes = 0
    /\ numReaders = 0
    /\ workq = [c \in CPUs |-> <<>>]
    /\ worker = [c \in CPUs |-> "idle"]
    /\ jiffies = 0
    /\ th = [t \in Threads |-> IdleLocals]
    /\ last = [t \in Threads |-> NoCall]
    /\ calls = MaxCalls
    /\ wlog = <<>>
    /\ rlog = <<>>
    /\ enableDriver = TRUE
    /\ session = [t \in Threads |-> TRUE]

\* the device file as init_module leaves it, but for the timeout, which an
\* ioctl has set to a few jiffies
InitLoaded ==
    /\ InitQuiet
    /\ off_read = 0
    /\ priority
    /\ blocking

\* the device file just loaded, with the timeout set to a few jiffies, that
\* no thread has opened yet
InitClosed ==
    /\ operation_synchronizer = FALSE
    /\ off_read = 0
    /\ off_write = 0
    /\ stream_content = [i \in Cells |-> Uninit]
    /\ priority = TRUE
    /\ blocking = TRUE
    /\ timeout \in 1..MaxIoctl
    /\ numBytes = 0
    /\ numReaders = 0
    /\ workq = [c \in CPUs |-> <<>>]
    /\ worker = [c \in CPUs |-> "idle"]
    /\ jiffies = 0
    /\ th = [t \in Threads |-> IdleLocals]
    /\ last = [t \in Threads |-> NoCall]
    /\ calls = MaxCalls
    /\ wlog = <<>>
    /\ rlog = <<>>
    /\ enableDriver = TRUE
    /\ session = [t \in Threads |-> FALSE]

\* one step of a call of user thread t
Call(t) ==
    \/ dev_write_enter(t)
    \/ dev_write_high_trylock(t)
    \/ dev_write_high_copy(t)
    \/ dev_write_low_trylock(t)
    \/ dev_write_low_reserve(t)
    \/ dev_write_low_schedule(t)
    \/ dev_read_enter(t)
    \/ dev_read_loop(t)
    \/ dev_read_wait(t)
    \/ dev_read_trylock(t)
    \/ dev_read_copy(t)
    \/ dev_read_exit(t)
    \/ dev_ioctl(t)

\* one step of the worker of CPU c
Work(c) ==
    \/ delayed_work_lock(c)
    \/ delayed_work_copy(c)

\* user threads, the workers of the system work queue and the clock
Next ==
    \/ \E t \in Threads : Call(t)
    \/ \E c \in CPUs : Work(c)
    \/ Tick

\* one user thread (user1.c): no two calls overlap
NextAlone ==
    \/ Call(1)
    \/ \E c \in CPUs : Work(c)
    \/ Tick

\* one user thread that opens and closes the device file, while the
\* administrator enables and disables it
NextOpen ==
    \/ dev_open(1)
    \/ dev_release(1)
    \/ set_enableDriver
    \/ Call(1)
    \/ \E c \in CPUs : Work(c)
    \/ Tick

\* the scheduler runs the thread whenever it can run, the workers of the
\* system work queue run the items scheduled, and the timer interrupt keeps
\* coming
Fairness ==
    /\ WF_vars(Tick)
    /\ WF_vars(Call(1))
    /\ \A c \in CPUs : WF_vars(Work(c))

\* threads sharing the device file from the moment the module is loaded
Spec == Init /\ [][Next]_vars

\* one thread on a device file that has been in use
SpecAlone == InitQuiet /\ [][NextAlone]_vars

\* one thread that has to open the device file before it uses it
SpecOpen == InitClosed /\ [][NextOpen]_vars

\* one thread on a device file just loaded, everything getting its turn
SpecFair == InitLoaded /\ [][NextAlone]_vars /\ Fairness

\* ----------------------------------------------------------------- claims
\* the bytes of a log that belong to one flow
FlowBytes(log, hi) ==
    LET s == SelectSeq(log, LAMBDA e : e.hi = hi)
    IN  [i \in 1..Len(s) |-> s[i].b]

IsPrefix(a, b) == Len(a) <= Len(b) /\ SubSeq(b, 1, Len(a)) = a

\* C1: for each flow, the bytes the reads have returned so far are a prefix
\* of the bytes the writes have accepted so far, in acceptance order: no
\* byte is lost, duplicated, reordered or invented.
C1_ReadsArePrefixOfWrites ==
    \A hi \in BOOLEAN : IsPrefix(FlowBytes(rlog, hi), FlowBytes(wlog, hi))

\* numBytes[minor] as the unsigned count a reader finds under the lock,
\* capped at the count c it is compared with
PresentUpTo(c) == IF numBytes < 0 THEN c ELSE Min(c, numBytes)

\* C2: a read that holds the lock copies out at most min(len, bytes
\* present) bytes, whatever the mode.
C2_ReadReturnsAtMostPresent ==
    [][\A t \in Threads :
          (th[t].pc \in {"rb_cs", "rn_cs"} /\ th'[t].pc # th[t].pc)
          => th'[t].result - th[t].result <= PresentUpTo(th[t].len)]_vars

\* the bytes of a log, whatever the flow
Bytes(log) == [i \in 1..Len(log) |-> log[i].b]

\* the step with which the read of thread t returns
ReadReturns(t) == th[t].pc = "r_exit" /\ th'[t].pc = "idle"

\* the read of thread t has not been kept off the CPU beyond its deadline
InTime(t) == th[t].blocking => jiffies <= th[t].jiffies_timer

\* C3: the flows are independent: a byte written to one flow is never
\* returned by a read of the other flow.  The bytes leave the device file
\* in the order they were accepted, so the i-th byte handed out is the
\* i-th byte accepted: the read that gets it runs on the flow it was
\* written to.
C3_FlowsAreIndependent ==
    \A i \in 1..Min(Len(rlog), Len(wlog)) : rlog[i].hi = wlog[i].hi

\* C4: a low priority write that, with the lock, finds bytes present + len
\* <= capacity reserves len bytes: it goes on to return len, and numBytes
\* has grown by len although the page is still as it was.
C4_LowWriteThatFitsIsAccepted ==
    [][\A t \in Threads :
          (/\ th[t].pc = "l_cs"
           /\ th'[t].pc # "l_cs"
           /\ numBytes >= 0
           /\ numBytes + th[t].len <= OBJECT_MAX_SIZE)
          => /\ th'[t].pc = "l_sched"
             /\ th'[t].result = th[t].len
             /\ numBytes' = numBytes + th[t].len
             /\ stream_content' = stream_content]_vars

\* C5: once a low priority write has returned n > 0 for a payload p (zero
\* bytes included), the reads get exactly the n bytes of p, in order.
\* Stated for the runs in which that write is the only one accepted: when
\* the reads have returned n bytes or more, the first n are p.
C5_LowPayloadIsReadBack ==
    (/\ wlog # <<>>
     /\ \A i \in 1..Len(wlog) : ~wlog[i].hi /\ wlog[i].call = wlog[1].call
     /\ Len(rlog) >= Len(wlog))
    => SubSeq(Bytes(rlog), 1, Len(wlog)) = Bytes(wlog)

\* C6: wrap-around: after a write that was accepted whole and ran past the
\* end of the page, a read that asks for no more than the unread bytes,
\* started once the payload is in the page and not held up beyond its
\* deadline, returns that many bytes, and they are the oldest unread bytes
\* in the order they were written.
C6_WrappedBytesAreRead ==
    [][\A t \in Threads :
          (/\ ReadReturns(t)
           /\ InTime(t)
           /\ last[t].op = "write"
           /\ last[t].ret = Len(last[t].data)
           /\ last[t].entry.off_write + last[t].ret > OBJECT_MAX_SIZE
           /\ last[t].entry.quiet
           /\ th[t].entry.quiet
           /\ th[t].entry.unread >= th[t].entry.len)
          => /\ th[t].result = th[t].entry.len
             /\ SubSeq(th[t].buff, 1, th[t].entry.len)
                  = SubSeq(Bytes(wlog), Len(rlog) + 1,
                           Len(rlog) + th[t].entry.len)]_vars

\* C7: round trip: on a device file with nothing unread and nothing else
\* going on, a high priority write of n bytes that returned n, followed by
\* a read of n bytes (not held up beyond its deadline), returns n and the
\* payload, and leaves the device file empty with numBytes = 0.
C7_RoundTrip ==
    [][\A t \in Threads :
          (/\ ReadReturns(t)
           /\ InTime(t)
           /\ last[t].op = "write"
           /\ last[t].flow
           /\ last[t].entry.quiet
           /\ last[t].entry.unread = 0
           /\ last[t].ret = Len(last[t].data)
           /\ th[t].entry.quiet
           /\ th[t].entry.unread = last[t].ret
           /\ th[t].entry.len = last[t].ret)
          => /\ th[t].result = last[t].ret
             /\ SubSeq(th[t].buff, 1, last[t].ret) = last[t].data
             /\ numBytes' = 0
             /\ off_read' = off_write']_vars

\* C8: a blocking high priority write that finds the device file full for
\* its length (bytes present + len > capacity) before its deadline does not
\* return at once.
C8_BlockingHighWriteWaitsWhenFull ==
    [][\A t \in Threads :
          (/\ th[t].pc = "hb_cs"
           /\ th'[t].pc # "hb_cs"
           /\ numBytes >= 0
           /\ numBytes + th[t].len > OBJECT_MAX_SIZE
           /\ jiffies <= th[t].jiffies_timer)
          => th'[t].pc # "idle"]_vars

\* C9: a non blocking read that starts when every byte accepted has been
\* handed out, with nothing else going on, returns 0 and leaves the
\* offsets, the page and numBytes as they are.
C9_NonBlockingReadOnEmpty ==
    [][\A t \in Threads :
          (/\ th[t].pc \in {"rn_try", "rn_cs", "r_exit"}
           /\ th'[t] # th[t]
           /\ ~th[t].blocking
           /\ th[t].entry.unread <= 0
           /\ th[t].entry.quiet)
          => /\ UNCHANGED <<off_read, off_write, stream_content, numBytes>>
             /\ th'[t].pc = "idle" => last'[t].ret = 0]_vars

\* the places of a blocking read
BlockingRead == {"rb_loop", "rb_wait", "rb_try", "rb_cs", "r_exit"}

\* C10: a blocking read with timeout T on a device file that gets no data
\* returns 0, not before T has elapsed since the call started, and it does
\* return (as far as the clock of the model goes).
C10_BlockingReadTimesOut ==
    /\ [][\A t \in Threads :
            (ReadReturns(t) /\ th[t].blocking /\ wlog = <<>>)
            => /\ last'[t].ret = 0
               /\ jiffies - th[t].entry.jiffies
                    >= msecs_to_jiffies(th[t].entry.timeout)]_vars
    /\ \A t \in Threads :
          (/\ th[t].pc \in BlockingRead
           /\ th[t].blocking
           /\ th[t].jiffies_timer < MaxJiffies
           /\ wlog = <<>>)
          ~> (th[t].pc = "idle" \/ wlog # <<>>)

\* a blocking read has returned 0 once its timeout had elapsed, nothing
\* having been written
C10_Witness ==
    \E t \in Threads :
        /\ th[t].pc = "idle"
        /\ last[t].op = "read"
        /\ last[t].blocking
        /\ last[t].ret = 0
        /\ wlog = <<>>
        /\ jiffies - last[t].entry.jiffies
             >= msecs_to_jiffies(last[t].entry.timeout)

\* the places of a read call
InRead == {"rb_loop", "rb_wait", "rb_try", "rb_cs", "rn_try", "rn_cs", "r_exit"}

\* C11: numReaders is incremented on entry to a read and decremented on
\* every exit path, so it always equals the number of threads inside a read
\* call (0 when no read is in progress).
C11_ReadersAreCounted ==
    numReaders = Cardinality({t \in Threads : th[t].pc \in InRead})

\* a read has timed out and returned 0 while another thread is still inside
\* its own read
C11_Witness ==
    \E t, u \in Threads :
        /\ last[t].op = "read"
        /\ last[t].ret = 0
        /\ th[t].pc = "idle"
        /\ th[u].pc \in InRead
        /\ numReaders = 1

\* C12: a non blocking high priority write that gets the lock returns 0
\* and changes nothing exactly when bytes present + len > capacity;
\* otherwise, also when it fills the page to capacity, it writes the len
\* bytes and returns len.
C12_NonBlockingHighWriteBound ==
    [][\A t \in Threads :
          (/\ th[t].pc = "hn_cs"
           /\ th'[t].pc = "idle"
           /\ numBytes >= 0)
          => IF numBytes + th[t].len > OBJECT_MAX_SIZE
             THEN /\ last'[t].ret = 0
                  /\ UNCHANGED <<off_write, stream_content, numBytes>>
             ELSE /\ last'[t].ret = th[t].len
                  /\ numBytes' = numBytes + th[t].len]_vars

\* the step that is an ioctl of thread t
IoctlStep(t) ==
    /\ calls' = calls - 1
    /\ last'[t].op \in IoctlCommands
    /\ last'[t].entry.call = calls

\* C13: ioctl: a positive timeout is stored and the call succeeds; a non
\* positive timeout, and a priority or blocking value other than 0 and 1,
\* make the call fail and leave priority, blocking and timeout as they are.
C13_IoctlValidatesValue ==
    [][\A t \in Threads :
          IoctlStep(t) =>
            LET command == last'[t].op
                value == last'[t].data[1]
            IN  /\ (command = "IOWR_TIMEOUT" /\ value > 0)
                   => /\ last'[t].ret = 0
                      /\ timeout' = value
                      /\ UNCHANGED <<priority, blocking>>
                /\ (command = "IOWR_TIMEOUT" /\ value <= 0)
                   => /\ last'[t].ret # 0
                      /\ UNCHANGED conf
                /\ (command # "IOWR_TIMEOUT" /\ value \notin {0, 1})
                   => /\ last'[t].ret # 0
                      /\ UNCHANGED conf]_vars

\* a timeout of 0 was refused after a timeout of 2 had been stored, and an
\* ioctl with priority 2 was refused as well
C13_Witness ==
    \E t, u \in Threads :
        /\ last[t].op = "IOWR_TIMEOUT"
        /\ last[t].data[1] <= 0
        /\ last[t].ret = 0 - 1
        /\ timeout = 2
        /\ last[u].op = "IOWR_PRIORITYSTATE"
        /\ last[u].data[1] = 2
        /\ last[u].ret = 0 - 1

\* the step in which a write of thread t returns as soon as it is entered:
\* the allocation of its task has failed
AllocationFails(t) ==
    /\ calls' = calls - 1
    /\ th[t].pc = "idle"
    /\ th'[t].pc = "idle"
    /\ last'[t].op = "write"
    /\ last'[t].entry.call = calls

\* C14: a low priority write whose task cannot be allocated returns zero,
\* schedules nothing and leaves numBytes and the page unchanged.
C14_AllocationFailureReturnsZero ==
    [][\A t \in Threads :
          AllocationFails(t)
          => /\ last'[t].ret = 0
             /\ UNCHANGED <<workq, numBytes, stream_content, off_write>>]_vars

\* the step that is an open of thread t
OpenStep(t) ==
    /\ calls' = calls - 1
    /\ last'[t].op = "open"
    /\ last'[t].entry.call = calls

EntersCall(t) == th[t].pc = "idle" /\ th'[t].pc # "idle"

Locked == {"hb_cs", "hn_cs", "l_cs", "rb_cs", "rn_cs"}

\* the threads and the workers that took the spinlock and have not yet
\* released it
Holders(thr, wrk) ==
    {<<"thread", t>> : t \in {u \in Threads : thr[u].pc \in Locked}}
    \cup {<<"worker", c>> : c \in {k \in CPUs : wrk[k] = "locked"}}

\* C17: mutual exclusion: at most one thread or worker is in the section
\* protected by the spinlock, and the spinlock is released only by the one
\* that took it.
C17_MutualExclusion ==
    [][/\ Cardinality(Holders(th, worker)) <= 1
       /\ (operation_synchronizer /\ ~operation_synchronizer')
          => \E h \in Holders(th, worker) : h \notin Holders(th', worker')]_vars

\* no call is in progress and no deferred write is queued or running
Quiescent ==
    /\ \A t \in Threads : th[t].pc = "idle"
    /\ \A c \in CPUs : workq[c] = <<>> /\ worker[c] = "idle"

\* C18: at every reachable state numBytes lies in [0, OBJECT_MAX_SIZE], and
\* when no reservation is pending and no operation is in progress it equals
\* (off_write - off_read) mod OBJECT_MAX_SIZE unless the buffer is full.
C18_CounterInRange ==
    /\ numBytes \in 0..OBJECT_MAX_SIZE
    /\ (Quiescent /\ numBytes # OBJECT_MAX_SIZE)
       => numBytes = (off_write - off_read) % OBJECT_MAX_SIZE

\* C19: at every reachable state off_read and off_write are indices in
\* [0, OBJECT_MAX_SIZE): an offset that reaches the end of the page is
\* wrapped to 0 and never rests at OBJECT_MAX_SIZE or beyond.
C19_OffsetsAreIndices ==
    /\ off_read \in 0..(OBJECT_MAX_SIZE - 1)
    /\ off_write \in 0..(OBJECT_MAX_SIZE - 1)

\* a read has moved off_read past bytes that numBytes still counts
ReadNotYetCounted(t) == th[t].pc = "r_exit" /\ th[t].result > 0

\* C20: numBytes is changed only by a step of a thread that holds the
\* spinlock, so whenever the spinlock is free numBytes counts no byte that
\* has already been read.
C20_CounterChangesUnderLock ==
    [][/\ numBytes' # numBytes
          => \E t \in Threads : th'[t] # th[t] /\ th[t].pc \in Locked
       /\ ~operation_synchronizer
          => \A t \in Threads : ~ReadNotYetCounted(t)]_vars

\* a step in which a write path stores into the page: the copy of a high
\* priority dev_write, or the strcpy of delayed_work
WriteStep ==
    \/ \E t \in Threads : th[t].pc \in {"hb_cs", "hn_cs"} /\ th'[t] # th[t]
    \/ \E c \in CPUs : worker[c] = "locked" /\ worker'[c] = "idle"

\* the positions that hold a byte written and not yet read
UnreadCells(or, ow) ==
    IF or <= ow
    THEN {i \in Cells : i >= or /\ i < ow}
    ELSE {i \in Cells : i >= or /\ i < OBJECT_MAX_SIZE}
         \cup {i \in Cells : i < ow}

\* C21: no write path (the copy of a high priority write, the strcpy of
\* delayed_work with the terminator it stores) changes a byte at an index
\* outside [0, OBJECT_MAX_SIZE) or at a position that holds a byte not yet
\* read.
C21_WritesStayInFreeCells ==
    [][WriteStep
       => \A i \in Cells :
            stream_content'[i] # stream_content[i]
            => /\ i < OBJECT_MAX_SIZE
               /\ i \notin UnreadCells(off_read, off_write)]_vars

\* the step with which the worker of CPU c commits the item it holds
Commits(c) == worker[c] = "locked" /\ worker'[c] = "idle"

\* C22: when delayed_work commits a low priority item while a blocking
\* reader sleeps on the read queue, it wakes the reader: the reader
\* evaluates its condition again because of the commit, not only when its
\* own timeout expires.
C22_CommitWakesReaders ==
    [][\A c \in CPUs, t \in Threads :
          (Commits(c) /\ th[t].pc = "rb_wait")
          => th'[t].woken]_vars

\* the bytes of the items of a queue, in all
RECURSIVE ItemBytes(_)
ItemBytes(q) ==
    IF q = <<>> THEN 0 ELSE Len(Head(q)) + ItemBytes(Tail(q))

\* the bytes of the items queued on the CPUs of S, in all
RECURSIVE QueuedBytes(_)
QueuedBytes(S) ==
    IF S = {} THEN 0
    ELSE LET c == CHOOSE x \in S : TRUE
         IN  ItemBytes(workq[c]) + QueuedBytes(S \ {c})

\* the bytes reserved by the threads of S whose task is not yet enqueued
RECURSIVE UnqueuedBytes(_)
UnqueuedBytes(S) ==
    IF S = {} THEN 0
    ELSE LET t == CHOOSE x \in S : TRUE
         IN  (IF th[t].pc = "l_sched" THEN th[t].len ELSE 0)
             + UnqueuedBytes(S \ {t})

\* the low priority bytes accepted so far that delayed_work has committed
CommittedBytes ==
    Len(FlowBytes(wlog, FALSE)) - QueuedBytes(CPUs) - UnqueuedBytes(Threads)

\* C23: the deferred tasks are committed in the order in which their low
\* priority writes were enqueued.  With one user thread the writes are
\* enqueued in the order they were accepted, so the item a worker commits
\* is the oldest one accepted and not yet committed.
C23_TasksCommitInOrder ==
    [][\A c \in CPUs :
          Commits(c)
          => Head(workq[c])
               = SubSeq(FlowBytes(wlog, FALSE), CommittedBytes + 1,
                        CommittedBytes + Len(Head(workq[c])))]_vars

\* C24: a blocking write, high or low priority, that is still trying for
\* the lock once its deadline (call time + timeout) has passed stops there:
\* its next step returns the bytes written so far, neither takes nor
\* releases the lock, and writes nothing.
C24_BlockingWriteStopsAtDeadline ==
    [][\A t \in Threads :
          (/\ th[t].pc \in {"hb_try", "lb_try"}
           /\ th'[t] # th[t]
           /\ jiffies > th[t].jiffies_timer)
          => /\ th'[t].pc = "idle"
             /\ last'[t].ret = th[t].result
             /\ UNCHANGED <<operation_synchronizer, stream_content,
                            off_write, numBytes>>]_vars

\* the low priority write of thread t is about to fail to reserve: with the
\* lock it finds no room for its length, or its single spin_trylock finds
\* the lock taken, or its deadline has passed
LowWriteFails(t) ==
    \/ /\ th[t].pc = "l_cs"
       /\ (numBytes < 0 \/ numBytes + th[t].len >= OBJECT_MAX_SIZE)
    \/ th[t].pc = "ln_try" /\ operation_synchronizer
    \/ th[t].pc = "lb_try" /\ jiffies > th[t].jiffies_timer

C26_BlockingReadFindsUnreadBytes ==
    [][\A t \in Threads :
          (/\ th[t].pc \in BlockingRead
           /\ th[t].blocking
           /\ th[t].entry.quiet
           /\ th[t].entry.unread > 0
           /\ InTime(t))
          => /\ th'[t].pc # "rb_wait"
             /\ ReadReturns(t) => th[t].result >= 1]_vars

====
